---- MODULE Spec2Model ----
(***************************************************************************)
(* Yucon - general purpose unit converter.                                 *)
(*                                                                         *)
(* Model of the conversion engine: the metric prefix table, the escape     *)
(* sequence parser (check_escape_sequences), the unit list lookup          *)
(* (get_unit_by_name) and get_conversion with its 'recall last' session    *)
(* state, as they are written in Convert.c and UnitList.c.                 *)
(*                                                                         *)
(* C strings are sequences of one-character strings; the terminating NUL   *)
(* is not stored, CharAt reads it at index Len.  A double is a record      *)
(* [k, n, d, e]: a finite value n/d * 10^e in canonical form, or NaN, or   *)
(* an infinity; arithmetic on finite values is exact (no rounding).        *)
(***************************************************************************)
EXTENDS Integers, Sequences, FiniteSets, TLC

----------------------------------------------------------------------------
(* Bounds of the model *)

\* longest unit token enumerated for the parser on its own
MaxTokLen == 4

\* longest name enumerated for the lookup on its own
MaxNameLen == 3

\* largest number converted there and back
MaxTripNum == 2

\* longest units.dat enumerated for the loader, in lines
MaxLines == 6

\* the most groups of four lines of a units.dat made of groups
MaxClusters == 2

\* the most lines of a batch input file
MaxBatchLines == 2

----------------------------------------------------------------------------
(* Program constants: GlobalDefines.h, UnitList.h, Convert.c *)

EXIT_SUCCESS == 0
INVALID_INPUT == 5
UNIT_NF == 6
INCOMPATIBLE_UNITS == 7
UNKNOWN_PREFIX == 12
NO_NAME_GIVEN == 13
NO_NAME_ALLOWED == 14
RECALL_UNSET == 15
RECALL_LAST == -5

LENGTH == 0
VOLUME == 1
AREA == 3
ENERGY == 4
POWER == 5
MASS == 6
FORCE == 7
TORQUE == 8
SPEED == 9
PRESSURE == 10
TEMP == 11
\* used by LoadConfig.c; GlobalDefines.h has no #define for it
FECONOMY == 12

INPUT_UNIT == 0
OUTPUT_UNIT == 1

\* Interpreter.c: the output formats
SIMPLE_FORMAT == 0
DESCRIPTIVE_FORMAT == 1
VERBOSE_FORMAT == 2

\* states of the finite state machine in check_escape_sequences
RESET == 0
RETURN_STATE == 1
GET_PREFIX == 2
PREFIX_SET == 3
GET_LAST_UNIT == 4

\* the terminating character of a C string
NULL_CHAR == "\\0"

\* a null Unit pointer; units are referred to by their position in the list
NULL == 0

\* a null char pointer (distinct from every string, the empty one included)
NULL_STR == <<"(null)">>

\* the static strings handed to error_msg for the RECALL_UNSET report
get_input_unit == <<"input unit">>
get_output_unit == <<"output unit">>

----------------------------------------------------------------------------
(* Doubles *)

RECURSIVE GCD(_, _)
GCD(a, b) == IF b = 0 THEN a ELSE GCD(b, a % b)

Abs(n) == IF n < 0 THEN -n ELSE n

RECURSIVE Pow10(_)
Pow10(k) == IF k = 0 THEN 1 ELSE 10 * Pow10(k - 1)

\* move the factors 2 and 5 of the denominator into the decimal exponent
RECURSIVE StripDen(_, _, _)
StripDen(n, d, e) ==
    IF d % 2 = 0 THEN StripDen(n * 5, d \div 2, e - 1)
    ELSE IF d % 5 = 0 THEN StripDen(n * 2, d \div 5, e - 1)
    ELSE [n |-> n, d |-> d, e |-> e]

\* move the factors 10 of the numerator into the decimal exponent
RECURSIVE StripNum(_, _, _)
StripNum(n, d, e) ==
    IF n % 10 = 0 THEN StripNum(n \div 10, d, e + 1)
    ELSE [k |-> "fin", n |-> n, d |-> d, e |-> e]

\* the finite double n/d * 10^e, in canonical form
Fin(n, d, e) ==
    IF n = 0 THEN [k |-> "fin", n |-> 0, d |-> 1, e |-> 0]
    ELSE LET s  == IF d < 0 THEN -1 ELSE 1
             g  == GCD(Abs(n), Abs(d))
             r  == StripDen((s * n) \div g, Abs(d) \div g, e)
             g2 == GCD(Abs(r.n), r.d)
         IN  StripNum(r.n \div g2, r.d \div g2, r.e)

NAN == [k |-> "nan", n |-> 0, d |-> 1, e |-> 0]
INFINITY == [k |-> "inf", n |-> 1, d |-> 1, e |-> 0]
NEG_INFINITY == [k |-> "inf", n |-> -1, d |-> 1, e |-> 0]

Sign(a) == IF a.n < 0 THEN -1 ELSE IF a.n = 0 THEN 0 ELSE 1
Inf(s) == IF s < 0 THEN NEG_INFINITY ELSE INFINITY

\* a == b of C: false whenever an operand is NaN
DEq(a, b) == a.k # "nan" /\ b.k # "nan" /\ a = b

\* a < 0 of C
DNegative(a) == a.k # "nan" /\ a.n < 0

DNeg(a) == [a EXCEPT !.n = -a.n]

DMul(a, b) ==
    IF a.k = "nan" \/ b.k = "nan" THEN NAN
    ELSE IF a.k = "inf" \/ b.k = "inf"
         THEN IF Sign(a) = 0 \/ Sign(b) = 0 THEN NAN ELSE Inf(Sign(a) * Sign(b))
    ELSE Fin(a.n * b.n, a.d * b.d, a.e + b.e)

DAdd(a, b) ==
    IF a.k = "nan" \/ b.k = "nan" THEN NAN
    ELSE IF a.k = "inf" /\ b.k = "inf" THEN (IF a.n = b.n THEN a ELSE NAN)
    ELSE IF a.k = "inf" THEN a
    ELSE IF b.k = "inf" THEN b
    ELSE LET m == IF a.e < b.e THEN a.e ELSE b.e
         IN  Fin(a.n * Pow10(a.e - m) * b.d + b.n * Pow10(b.e - m) * a.d,
                 a.d * b.d, m)

DSub(a, b) == DAdd(a, DNeg(b))

DDiv(a, b) ==
    IF a.k = "nan" \/ b.k = "nan" THEN NAN
    ELSE IF a.k = "inf" THEN (IF b.k = "inf" THEN NAN
                              ELSE Inf(a.n * (IF b.n < 0 THEN -1 ELSE 1)))
    ELSE IF b.k = "inf" THEN Fin(0, 1, 0)
    ELSE IF b.n = 0 THEN (IF a.n = 0 THEN NAN ELSE Inf(Sign(a)))
    ELSE Fin(a.n * b.d, a.d * b.n, a.e - b.e)

One == Fin(1, 1, 0)

----------------------------------------------------------------------------
(* C strings *)

\* str[pos]; the character at index Len(str) is the terminator
CharAt(str, pos) == IF pos < Len(str) THEN str[pos + 1] ELSE NULL_CHAR

\* str + k, for k within the string
Advance(str, k) == SubSeq(str, k + 1, Len(str))

Digits == {"0", "1", "2", "3", "4", "5", "6", "7", "8", "9"}

DigitVal(c) ==
    CASE c = "0" -> 0 [] c = "1" -> 1 [] c = "2" -> 2 [] c = "3" -> 3
      [] c = "4" -> 4 [] c = "5" -> 5 [] c = "6" -> 6 [] c = "7" -> 7
      [] c = "8" -> 8 [] c = "9" -> 9

\* the digits (and at most one '.') at the front of str, read as a decimal:
\* the mantissa so far, the number of digits after the point
RECURSIVE ReadDecimal(_, _, _, _, _)
ReadDecimal(str, pos, mant, frac, seenPoint) ==
    LET c == CharAt(str, pos)
    IN  IF c \in Digits
        THEN ReadDecimal(str, pos + 1, mant * 10 + DigitVal(c),
                         IF seenPoint THEN frac + 1 ELSE frac, seenPoint)
        ELSE IF c = "." /\ ~seenPoint
        THEN ReadDecimal(str, pos + 1, mant, frac, TRUE)
        ELSE Fin(mant, 1, -frac)

\* strtod( str, NULL ): optional sign, then "inf", "nan" or a decimal;
\* 0 when no number can be read
strtod(str) ==
    LET neg  == CharAt(str, 0) = "-"
        pos  == IF CharAt(str, 0) \in {"-", "+"} THEN 1 ELSE 0
        word == <<CharAt(str, pos), CharAt(str, pos + 1), CharAt(str, pos + 2)>>
        v    == IF word = <<"i", "n", "f">> THEN INFINITY
                ELSE IF word = <<"n", "a", "n">> THEN NAN
                ELSE ReadDecimal(str, pos, 0, 0, FALSE)
    IN  IF neg THEN DNeg(v) ELSE v

----------------------------------------------------------------------------
(* Convert.c: get_prefix_value *)

PrefixLetters ==
    {"Y", "Z", "E", "P", "T", "G", "M", "k", "h", "D",
     "d", "c", "m", "u", "n", "p", "f", "a", "z", "y"}

\* the power of ten of each case of the switch
PrefixExponent(prefix) ==
    CASE prefix = "Y" -> 24  [] prefix = "Z" -> 21  [] prefix = "E" -> 18
      [] prefix = "P" -> 15  [] prefix = "T" -> 12  [] prefix = "G" -> 9
      [] prefix = "M" -> 6   [] prefix = "k" -> 3   [] prefix = "h" -> 2
      [] prefix = "D" -> 1   [] prefix = "d" -> -1  [] prefix = "c" -> -2
      [] prefix = "m" -> -3  [] prefix = "u" -> -6  [] prefix = "n" -> -9
      [] prefix = "p" -> -12 [] prefix = "f" -> -15 [] prefix = "a" -> -18
      [] prefix = "z" -> -21 [] prefix = "y" -> -24

\* get_prefix_value that takes K for k
get_prefix_value_any_case(prefix) ==
    IF prefix = "K" THEN Fin(1, 1, 3)
    ELSE IF prefix \in PrefixLetters THEN Fin(1, 1, PrefixExponent(prefix))
    ELSE Fin(-1, 1, 0)

\* get_prefix_value with "return 0" for the default case
get_prefix_value_default_zero(prefix) ==
    IF prefix \in PrefixLetters THEN Fin(1, 1, PrefixExponent(prefix))
    ELSE Fin(0, 1, 0)

get_prefix_value(prefix) ==
    IF prefix \in PrefixLetters THEN Fin(1, 1, PrefixExponent(prefix))
    ELSE Fin(-1, 1, 0)

----------------------------------------------------------------------------
(* Convert.c: check_escape_sequences *)

\* the while loop of the state machine.  str is the caller's string, skip
\* what has been added to the caller's pointer, prefix the caller's double.
RECURSIVE escape_loop(_, _, _, _, _, _)
escape_loop(str, skip, prefix, state, error_status, pos) ==
    LET c == CharAt(str, pos)
    IN  CASE state = RETURN_STATE ->
               [ret |-> error_status, str |-> Advance(str, skip), prefix |-> prefix]
          [] state = RESET ->
               escape_loop(str, skip, prefix,
                           IF c = ":" THEN GET_LAST_UNIT
                           ELSE IF c = "_" THEN GET_PREFIX
                           ELSE RETURN_STATE,
                           error_status, pos + 1)
          [] state = GET_PREFIX ->
               IF DNegative(get_prefix_value(c))
               THEN escape_loop(str, skip, get_prefix_value(c), RETURN_STATE,
                                UNKNOWN_PREFIX, pos + 1)
               ELSE escape_loop(str, skip, get_prefix_value(c), PREFIX_SET,
                                error_status, pos + 1)
          [] state = PREFIX_SET ->
               IF c = ":"
               THEN escape_loop(str, skip, prefix, GET_LAST_UNIT, error_status, pos + 1)
               ELSE IF c = NULL_CHAR
               THEN escape_loop(str, skip, prefix, RETURN_STATE, NO_NAME_GIVEN, pos + 1)
               ELSE escape_loop(str, skip + 2, prefix, RETURN_STATE, error_status, pos + 1)
          [] state = GET_LAST_UNIT ->
               escape_loop(str, skip, prefix, RETURN_STATE,
                           IF c # NULL_CHAR THEN NO_NAME_ALLOWED ELSE RECALL_LAST,
                           pos + 1)

\* check_escape_sequences with "*str += 1" to omit the prefix
check_escape_sequences_skip_one(str, prefix) ==
    LET r == escape_loop(str, 0, prefix, RESET, 0, 0)
    IN  IF r.ret = 0 /\ r.str # str THEN [r EXCEPT !.str = Advance(str, 1)] ELSE r

\* check_escape_sequences that takes '_P' for a prefix and an empty name
check_escape_sequences_empty_name(str, prefix) ==
    LET r == escape_loop(str, 0, prefix, RESET, 0, 0)
    IN  IF r.ret = NO_NAME_GIVEN THEN [r EXCEPT !.ret = 0, !.str = Advance(str, 2)] ELSE r

\* check_escape_sequences that does not look at what follows the ':'
check_escape_sequences_any_recall(str, prefix) ==
    LET r == escape_loop(str, 0, prefix, RESET, 0, 0)
    IN  IF r.ret = NO_NAME_ALLOWED THEN [r EXCEPT !.ret = RECALL_LAST] ELSE r

\* returns the error status, the caller's string pointer and the caller's
\* prefix as the call leaves them
check_escape_sequences(str, prefix) ==
    escape_loop(str, 0, prefix, RESET, 0, 0)

----------------------------------------------------------------------------
(* UnitList.c: the list of units and get_unit_by_name *)

\* the units list as the loader leaves it, in registration order.  The
\* alias "t" is given to two records.  K is the kelvin with the offset
\* 273.15, K- the kelvin with the offset -273.15.
list_handle ==
    << [unit_name |-> << <<"m">>, <<"m", "t">> >>, unit_type |-> LENGTH,
        conversion_factor |-> Fin(1, 1, 0), offset |-> Fin(0, 1, 0)],
       [unit_name |-> << <<"f">>, <<"f", "t">>, <<"t">> >>, unit_type |-> LENGTH,
        conversion_factor |-> Fin(3, 1, -1), offset |-> Fin(0, 1, 0)],
       [unit_name |-> << <<"g">>, <<"t">> >>, unit_type |-> MASS,
        conversion_factor |-> Fin(1, 1, -3), offset |-> Fin(0, 1, 0)],
       [unit_name |-> << <<"C">> >>, unit_type |-> TEMP,
        conversion_factor |-> Fin(1, 1, 0), offset |-> Fin(0, 1, 0)],
       [unit_name |-> << <<"F">> >>, unit_type |-> TEMP,
        conversion_factor |-> Fin(5, 9, 0), offset |-> Fin(-32, 1, 0)],
       [unit_name |-> << <<"K">> >>, unit_type |-> TEMP,
        conversion_factor |-> Fin(1, 1, 0), offset |-> Fin(27315, 1, -2)],
       [unit_name |-> << <<"K", "-">> >>, unit_type |-> TEMP,
        conversion_factor |-> Fin(1, 1, 0), offset |-> Fin(-27315, 1, -2)] >>

Units == 1..Len(list_handle)

\* the for loop over the names of one unit
has_name(unit, name) ==
    \E pos \in 1..Len(list_handle[unit].unit_name) :
        list_handle[unit].unit_name[pos] = name

\* search_list that keeps the last unit with a matching name
search_list_last(name, head) ==
    IF \A unit \in head..Len(list_handle) : ~has_name(unit, name) THEN NULL
    ELSE CHOOSE unit \in head..Len(list_handle) :
             /\ has_name(unit, name)
             /\ \A other \in head..Len(list_handle) : has_name(other, name) => other <= unit

\* the while loop over the list: the first unit with a matching name
RECURSIVE search_list(_, _)
search_list(name, head) ==
    IF head > Len(list_handle) THEN NULL
    ELSE IF has_name(head, name) THEN head
    ELSE search_list(name, head + 1)

\* name + 2; when that passes the terminator the characters read are
\* whatever lies beyond the string
skip_prefix(name, beyond) ==
    IF CharAt(name, 0) = "_"
    THEN (IF Len(name) >= 2 THEN Advance(name, 2) ELSE beyond)
    ELSE name

\* get_unit_by_name that does not remember the unit it found
get_unit_by_name_forgets(name, which, beyond, last_in, last_out) ==
    LET name2 == skip_prefix(name, beyond)
    IN  [unit |-> IF CharAt(name2, 0) = ":"
                  THEN (IF which = INPUT_UNIT THEN last_in ELSE last_out)
                  ELSE search_list(name2, 1),
         last_input_unit |-> last_in, last_output_unit |-> last_out]

\* get_unit_by_name that recalls the input unit for either side
get_unit_by_name_recalls_input(name, which, beyond, last_in, last_out) ==
    LET name2 == skip_prefix(name, beyond)
        unit  == search_list(name2, 1)
    IN  IF CharAt(name2, 0) = ":"
        THEN [unit |-> last_in,
              last_input_unit |-> last_in, last_output_unit |-> last_out]
        ELSE IF unit # NULL
        THEN [unit |-> unit,
              last_input_unit |-> IF which = INPUT_UNIT THEN unit ELSE last_in,
              last_output_unit |-> IF which = INPUT_UNIT THEN last_out ELSE unit]
        ELSE [unit |-> NULL, last_input_unit |-> last_in, last_output_unit |-> last_out]

\* returns the unit and the two remembered units as the call leaves them
get_unit_by_name(name, which, beyond, last_in, last_out) ==
    LET name2 == skip_prefix(name, beyond)
        unit  == search_list(name2, 1)
    IN  IF CharAt(name2, 0) = ":"
        THEN [unit |-> IF which = INPUT_UNIT THEN last_in ELSE last_out,
              last_input_unit |-> last_in, last_output_unit |-> last_out]
        ELSE IF unit # NULL
        THEN [unit |-> unit,
              last_input_unit |-> IF which = INPUT_UNIT THEN unit ELSE last_in,
              last_output_unit |-> IF which = INPUT_UNIT THEN last_out ELSE unit]
        ELSE [unit |-> NULL, last_input_unit |-> last_in, last_output_unit |-> last_out]

----------------------------------------------------------------------------
(* LoadConfig.c: load_units_list *)

\* the unit type names
length == <<"l", "e", "n", "g", "t", "h">>
volume == <<"v", "o", "l", "u", "m", "e">>
area == <<"a", "r", "e", "a">>
energy == <<"e", "n", "e", "r", "g", "y">>
power == <<"p", "o", "w", "e", "r">>
mass == <<"m", "a", "s", "s">>
force == <<"f", "o", "r", "c", "e">>
torque == <<"t", "o", "r", "q", "u", "e">>
speed == <<"s", "p", "e", "e", "d">>
pressure == <<"p", "r", "e", "s", "s", "u", "r", "e">>
temp == <<"t", "e", "m", "p", "e", "r", "a", "t", "u", "r", "e">>
feconomy == <<"f", "u", "e", "l", " ", "e", "c", "o", "n", "o", "m", "y">>

\* strncmp( str, lit, n ) == 0
strncmp_equal(str, lit, n) ==
    \A pos \in 0..(n - 1) : CharAt(str, pos) = CharAt(lit, pos)

get_unit_type(str) ==
    IF strncmp_equal(str, length, 6) THEN LENGTH
    ELSE IF strncmp_equal(str, volume, 6) THEN VOLUME
    ELSE IF strncmp_equal(str, area, 4) THEN AREA
    ELSE IF strncmp_equal(str, energy, 6) THEN ENERGY
    ELSE IF strncmp_equal(str, power, 5) THEN POWER
    ELSE IF strncmp_equal(str, mass, 4) THEN MASS
    ELSE IF strncmp_equal(str, force, 5) THEN FORCE
    ELSE IF strncmp_equal(str, torque, 6) THEN TORQUE
    ELSE IF strncmp_equal(str, speed, 5) THEN SPEED
    ELSE IF strncmp_equal(str, pressure, 8) THEN PRESSURE
    ELSE IF strncmp_equal(str, temp, 11) THEN TEMP
    ELSE IF strncmp_equal(str, feconomy, 12) THEN FECONOMY
    ELSE -1

\* the copy stops at the newline
str_safe_copy(str) ==
    IF \A pos \in 1..Len(str) : str[pos] # "\n" THEN str
    ELSE SubSeq(str, 1, (CHOOSE pos \in 1..Len(str) :
                            /\ str[pos] = "\n"
                            /\ \A before \in 1..(pos - 1) : str[before] # "\n") - 1)

\* the strtok loop of get_names_list: token is the token being read
RECURSIVE strtok_names(_, _, _)
strtok_names(str, pos, token) ==
    IF pos > Len(str)
    THEN (IF token = << >> THEN << >> ELSE << str_safe_copy(token) >>)
    ELSE IF str[pos] # ","
    THEN strtok_names(str, pos + 1, Append(token, str[pos]))
    ELSE IF token = << >>
    THEN strtok_names(str, pos + 1, << >>)
    ELSE << str_safe_copy(token) >> \o strtok_names(str, pos + 1, << >>)

get_names_list(str) == strtok_names(str, 1, << >>)

\* add_unit: the list with the unit at the index, unchanged when the index
\* is past its end
add_unit(list, unit, index) ==
    IF index > Len(list) THEN list
    ELSE SubSeq(list, 1, index) \o << unit >> \o SubSeq(list, index + 1, Len(list))

\* A line of units.dat is its key, the characters that strncmp compares,
\* and the text after them.  fgets at the position pos: the line there, or,
\* at the end of the file, the buffer as it was
fgets(lines, pos, line_buffer) ==
    IF pos <= Len(lines) THEN lines[pos] ELSE line_buffer

\* feof once the line at the position has been asked for: a read failed, or
\* the last line was read and does not end in a newline
feof(lines, pos) ==
    \/ pos > Len(lines)
    \/ pos = Len(lines) /\ lines[pos].text[Len(lines[pos].text)] # "\n"

\* the line buffer after each fgets of one iteration that starts at pos with
\* the buffer holding garbage
names_line(lines, pos, garbage) == fgets(lines, pos, garbage)
type_line(lines, pos, garbage) == fgets(lines, pos + 1, names_line(lines, pos, garbage))
factor_line(lines, pos, garbage) == fgets(lines, pos + 2, type_line(lines, pos, garbage))
offset_line(lines, pos, garbage) == fgets(lines, pos + 3, factor_line(lines, pos, garbage))

\* the number of fgets calls of the iteration
lines_read(l1, l2, l3) ==
    IF l1.key # "names=" THEN 1
    ELSE IF l2.key # "type=" THEN 2
    ELSE IF l3.key # "factor=" THEN 3
    ELSE 4

\* cluster_complete without the test of the factor line
cluster_complete_any_factor(l1, l2, l3, l4) ==
    l1.key = "names=" /\ l2.key = "type=" /\ l4.key = "offset="

\* the iteration reaches "create new unit and add it to list"
cluster_complete(l1, l2, l3, l4) ==
    l1.key = "names=" /\ l2.key = "type=" /\ l3.key = "factor=" /\ l4.key = "offset="

\* the unit created from the four lines
new_unit(l1, l2, l3, l4) ==
    [unit_name |-> get_names_list(l1.text), unit_type |-> get_unit_type(l2.text),
     conversion_factor |-> strtod(l3.text), offset |-> strtod(l4.text)]

\* what one iteration of the while loop leaves, given the four buffers
iteration_outcome(lines, pos, units, l1, l2, l3, l4) ==
    [file_pos |-> IF pos + lines_read(l1, l2, l3) > Len(lines) + 1
                  THEN Len(lines) + 1 ELSE pos + lines_read(l1, l2, l3),
     end_of_file |-> feof(lines, pos + lines_read(l1, l2, l3) - 1),
     loaded |-> IF cluster_complete(l1, l2, l3, l4)
                THEN add_unit(units, new_unit(l1, l2, l3, l4), Len(units))
                ELSE units]

\* one iteration of the while loop of load_units_list
load_iteration(lines, pos, garbage, units) ==
    iteration_outcome(lines, pos, units,
                      names_line(lines, pos, garbage), type_line(lines, pos, garbage),
                      factor_line(lines, pos, garbage), offset_line(lines, pos, garbage))

----------------------------------------------------------------------------
(* The state *)

VARIABLES
    \* Convert.c and UnitList.c: the 'recall last' data
    last_number, last_input_name, last_output_name,
    last_input_unit, last_output_unit,
    \* yucon.c: the error report
    error_code, error_msg,
    \* the latest call of get_conversion: its three strings as the caller
    \* passed them, the value it returned, the double the caller passed for
    \* the result, and its locals as the call left them
    number, input_unit_name, output_unit_name,
    ret, conversion,
    input, input_prefix, output_prefix, input_unit, output_unit,
    \* the latest call of check_escape_sequences on its own: the string
    \* passed, and the status, string pointer and prefix it left
    escape_arg, escape_result,
    \* Interpreter.c: the format option and the string generate_output made
    \* for the latest line (its fields, in the order of the sprintf)
    format, output_str,
    \* the latest call of get_unit_by_name on its own: its arguments and the
    \* pointer it returned
    lookup_arg, lookup_result,
    \* the latest conversion there and back: the number, the two units and
    \* prefixes, and the two results
    round_trip,
    \* LoadConfig.c: the lines of units.dat, the position of the stream, its
    \* end-of-file indicator and the units added to the list so far
    units_cfg, file_pos, end_of_file, loaded,
    \* Interpreter.c, batch_convert: the lines of the input file, the position
    \* of the stream, its end-of-file indicator, the three tokens of the
    \* latest line and the strings written to the output so far
    batch,
    \* the latest type name turned into its code by get_unit_type and back
    \* into a name by get_type_str: the name, the code, the name returned
    kind

vars == <<last_number, last_input_name, last_output_name,
          last_input_unit, last_output_unit, error_code, error_msg,
          number, input_unit_name, output_unit_name, ret, conversion,
          input, input_prefix, output_prefix, input_unit, output_unit,
          escape_arg, escape_result, format, output_str,
          lookup_arg, lookup_result, round_trip,
          units_cfg, file_pos, end_of_file, loaded, batch, kind>>

session_vars == <<last_number, last_input_name, last_output_name,
                  last_input_unit, last_output_unit, error_code, error_msg>>

call_vars == <<number, input_unit_name, output_unit_name, ret, conversion,
               input, input_prefix, output_prefix, input_unit, output_unit>>

escape_vars == <<escape_arg, escape_result>>

output_vars == <<format, output_str>>

lookup_vars == <<lookup_arg, lookup_result>>

loader_vars == <<units_cfg, file_pos, end_of_file, loaded>>

\* what the caller's double holds when get_conversion did not write it
NO_RESULT == [k |-> "unwritten", n |-> 0, d |-> 1, e |-> 0]

\* what number holds before the first call
NO_CALL == <<"(no call)">>

\* what round_trip holds before the first conversion there and back
NO_TRIP == [x |-> NAN, in_prefix |-> One, A |-> NULL, out_prefix |-> One, B |-> NULL, there |-> NO_RESULT, back |-> NO_RESULT]

----------------------------------------------------------------------------
(* Convert.c: get_conversion *)

\* read_number that adds the last number to the number read
read_number_accumulates(text, last) ==
    IF CharAt(text, 0) # ":" THEN DAdd(strtod(text), last) ELSE last

\* read_number without the test for ':'
read_number_always_parses(text, last) == strtod(text)

\* the numeral to convert: strtod of the text, or the last number for ':'
read_number(text, last) ==
    IF CharAt(text, 0) # ":" THEN strtod(text) ELSE last

\* out_of_range that also takes zero and the negative numbers for invalid
out_of_range_nonpositive(value) ==
    DEq(value, NAN) \/ DEq(value, INFINITY) \/ (value.k # "nan" /\ value.n <= 0)

\* "if input is out of range"
out_of_range(value) == DEq(value, NAN) \/ DEq(value, INFINITY)

\* copy_name_for_recall: the storage afterwards
copy_name_for_recall(name, storage) == name

\* types_mismatched comparing the wrong field
types_mismatched_by_factor(in_unit, out_unit) ==
    list_handle[in_unit].conversion_factor # list_handle[out_unit].conversion_factor

\* "if the units types are mistmatched"
types_mismatched(in_unit, out_unit) ==
    list_handle[in_unit].unit_type # list_handle[out_unit].unit_type

\* conversion_value with the input prefix applied after the input offset
conversion_value_prefix_late(value, in_prefix, in_unit, out_prefix, out_unit) ==
    DDiv(DSub(DMul(DMul(DAdd(value, list_handle[in_unit].offset), in_prefix),
                   DDiv(list_handle[in_unit].conversion_factor,
                        list_handle[out_unit].conversion_factor)),
              list_handle[out_unit].offset),
         out_prefix)

\* conversion_value that leaves the input prefix out
conversion_value_no_input_prefix(value, in_prefix, in_unit, out_prefix, out_unit) ==
    DDiv(DSub(DMul(DAdd(value, list_handle[in_unit].offset),
                   DDiv(list_handle[in_unit].conversion_factor,
                        list_handle[out_unit].conversion_factor)),
              list_handle[out_unit].offset),
         out_prefix)

\* conversion_value that multiplies by the output prefix
conversion_value_times_output_prefix(value, in_prefix, in_unit, out_prefix, out_unit) ==
    DMul(DSub(DMul(DAdd(DMul(value, in_prefix), list_handle[in_unit].offset),
                   DDiv(list_handle[in_unit].conversion_factor,
                        list_handle[out_unit].conversion_factor)),
              list_handle[out_unit].offset),
         out_prefix)

\* conversion_value that adds the output offset
conversion_value_adds_output_offset(value, in_prefix, in_unit, out_prefix, out_unit) ==
    DDiv(DAdd(DMul(DAdd(DMul(value, in_prefix), list_handle[in_unit].offset),
                   DDiv(list_handle[in_unit].conversion_factor,
                        list_handle[out_unit].conversion_factor)),
              list_handle[out_unit].offset),
         out_prefix)

\* the conversion written on success
conversion_value(value, in_prefix, in_unit, out_prefix, out_unit) ==
    DDiv(DSub(DMul(DAdd(DMul(value, in_prefix), list_handle[in_unit].offset),
                   DDiv(list_handle[in_unit].conversion_factor,
                        list_handle[out_unit].conversion_factor)),
              list_handle[out_unit].offset),
         out_prefix)

\* what one side of get_conversion leaves: err is 0 when the unit was
\* resolved, otherwise the value get_conversion returns
side_outcome(err, code, msg, prefix, unit, name, last_in, last_out) ==
    [err |-> err, error_code |-> code, error_msg |-> msg, prefix |-> prefix,
     unit |-> unit, last_name |-> name,
     last_input_unit |-> last_in, last_output_unit |-> last_out]

\* one side of get_conversion after its two calls: esc is what
\* check_escape_sequences returned, got what get_unit_by_name returned
side_checks(esc, got, which, last_in, last_out, last_name) ==
    IF esc.ret = RECALL_LAST
    THEN IF got.unit = NULL
         THEN side_outcome(RECALL_UNSET, esc.ret,
                           IF which = INPUT_UNIT THEN get_input_unit ELSE get_output_unit,
                           esc.prefix, NULL, last_name,
                           got.last_input_unit, got.last_output_unit)
         ELSE side_outcome(0, esc.ret, error_msg, esc.prefix, got.unit, last_name,
                           got.last_input_unit, got.last_output_unit)
    ELSE IF esc.ret # 0
    THEN side_outcome(esc.ret, esc.ret, esc.str, esc.prefix, NULL, last_name,
                      last_in, last_out)
    ELSE IF got.unit = NULL
    THEN side_outcome(UNIT_NF, esc.ret, esc.str, esc.prefix, NULL, last_name,
                      got.last_input_unit, got.last_output_unit)
    ELSE side_outcome(0, esc.ret, error_msg, esc.prefix, got.unit,
                      copy_name_for_recall(esc.str, last_name),
                      got.last_input_unit, got.last_output_unit)

\* one side of get_conversion once check_escape_sequences has returned esc
side_lookup(esc, which, beyond, last_in, last_out, last_name) ==
    side_checks(esc, get_unit_by_name(esc.str, which, beyond, last_in, last_out),
                which, last_in, last_out, last_name)

\* one side of get_conversion: check_escape_sequences, get_unit_by_name and
\* copy_name_for_recall for the unit named by str
resolve_side(str, which, beyond, last_in, last_out, last_name) ==
    side_lookup(check_escape_sequences(str, One), which, beyond,
                last_in, last_out, last_name)

\* what a call of get_conversion leaves: the value returned, what is written
\* to *conversion, the locals and the globals
call_outcome(code, result, value, text, in_prefix, out_prefix, in_unit, out_unit, in_name, out_name, last_in, last_out, err_code, err_msg) ==
    [ret |-> code, conversion |-> result, input |-> value,
     input_prefix |-> in_prefix, output_prefix |-> out_prefix,
     input_unit |-> in_unit, output_unit |-> out_unit,
     last_number |-> IF CharAt(text, 0) # ":" THEN value ELSE last_number,
     last_input_name |-> in_name, last_output_name |-> out_name,
     last_input_unit |-> last_in, last_output_unit |-> last_out,
     error_code |-> err_code, error_msg |-> err_msg]

\* conversion_checks with the test of the output side before that of the
\* input side
conversion_checks_output_first(text, value, in, out) ==
    IF out_of_range(value)
    THEN call_outcome(INVALID_INPUT, NO_RESULT, value, text, One, One, NULL, NULL,
                      last_input_name, last_output_name,
                      last_input_unit, last_output_unit, error_code, error_msg)
    ELSE IF out.err # 0 \/ in.err # 0
    THEN call_outcome(IF out.err # 0 THEN out.err ELSE in.err,
                      NO_RESULT, value, text, in.prefix, out.prefix,
                      in.unit, out.unit, in.last_name, out.last_name,
                      out.last_input_unit, out.last_output_unit,
                      out.error_code, out.error_msg)
    ELSE IF types_mismatched(in.unit, out.unit)
    THEN call_outcome(INCOMPATIBLE_UNITS, NO_RESULT, value, text, in.prefix, out.prefix,
                      in.unit, out.unit, in.last_name, out.last_name,
                      out.last_input_unit, out.last_output_unit,
                      out.error_code, out.error_msg)
    ELSE call_outcome(EXIT_SUCCESS,
                      conversion_value(value, in.prefix, in.unit, out.prefix, out.unit),
                      value, text, in.prefix, out.prefix,
                      in.unit, out.unit, in.last_name, out.last_name,
                      out.last_input_unit, out.last_output_unit,
                      out.error_code, out.error_msg)

\* the returns of get_conversion in their order, given the number read and
\* what the two sides leave
conversion_checks(text, value, in, out) ==
    IF out_of_range(value)
    THEN call_outcome(INVALID_INPUT, NO_RESULT, value, text, One, One, NULL, NULL,
                      last_input_name, last_output_name,
                      last_input_unit, last_output_unit, error_code, error_msg)
    ELSE IF in.err # 0
    THEN call_outcome(in.err, NO_RESULT, value, text, in.prefix, One, in.unit, NULL,
                      in.last_name, last_output_name,
                      in.last_input_unit, in.last_output_unit,
                      in.error_code, in.error_msg)
    ELSE IF out.err # 0
    THEN call_outcome(out.err, NO_RESULT, value, text, in.prefix, out.prefix,
                      in.unit, out.unit, in.last_name, out.last_name,
                      out.last_input_unit, out.last_output_unit,
                      out.error_code, out.error_msg)
    ELSE IF types_mismatched(in.unit, out.unit)
    THEN call_outcome(INCOMPATIBLE_UNITS, NO_RESULT, value, text, in.prefix, out.prefix,
                      in.unit, out.unit, in.last_name, out.last_name,
                      out.last_input_unit, out.last_output_unit,
                      out.error_code, out.error_msg)
    ELSE call_outcome(EXIT_SUCCESS,
                      conversion_value(value, in.prefix, in.unit, out.prefix, out.unit),
                      value, text, in.prefix, out.prefix,
                      in.unit, out.unit, in.last_name, out.last_name,
                      out.last_input_unit, out.last_output_unit,
                      out.error_code, out.error_msg)

\* get_conversion from its output side on: in is what the input side left
output_side(text, value, in, out_name, beyond_out) ==
    conversion_checks(text, value, in,
                      resolve_side(out_name, OUTPUT_UNIT, beyond_out,
                                   in.last_input_unit, in.last_output_unit,
                                   last_output_name))

\* the whole call
get_conversion(text, in_name, out_name, beyond_in, beyond_out) ==
    output_side(text, read_number(text, last_number),
                resolve_side(in_name, INPUT_UNIT, beyond_in,
                             last_input_unit, last_output_unit, last_input_name),
                out_name, beyond_out)

----------------------------------------------------------------------------
(* Convert.c: the output strings *)

\* "occlude underscore when using metric prefixing"
occlude_underscore(unit_str) ==
    IF CharAt(unit_str, 0) = "_" THEN Advance(unit_str, 1) ELSE unit_str

\* "determine which of the units to recall"
last_unit(which, in_name, out_name) ==
    IF which = INPUT_UNIT THEN in_name ELSE out_name

\* build_unit_str on the string after occlude_underscore: the caller's
\* pointer as the call leaves it and the string returned (NULL_STR for NULL)
rebuild_unit_str(adjusted, recalled) ==
    IF CharAt(adjusted, 0) = ":"
    THEN [unit_str |-> recalled, rebuilt |-> NULL_STR]
    ELSE IF CharAt(adjusted, 1) = ":"
    THEN [unit_str |-> adjusted, rebuilt |-> <<CharAt(adjusted, 0)>> \o recalled]
    ELSE [unit_str |-> adjusted, rebuilt |-> NULL_STR]

\* in_name and out_name are last_input_name and last_output_name
build_unit_str(unit_str, which, in_name, out_name) ==
    rebuild_unit_str(occlude_underscore(unit_str), last_unit(which, in_name, out_name))

\* the name the output functions print: the rebuilt string if there is one
printed_name(built) ==
    IF built.rebuilt # NULL_STR THEN built.rebuilt ELSE built.unit_str

\* an output string is the arguments of its sprintf: the number and the
\* input unit name (verbose only), the conversion, the output unit name
\* (descriptive and verbose)
output_text(value, in_unit_name, result, out_unit_name) ==
    [number |-> value, input_unit_name |-> in_unit_name,
     conversion |-> result, output_unit_name |-> out_unit_name]

\* no output string
NO_OUTPUT == output_text(NO_RESULT, NULL_STR, NO_RESULT, NULL_STR)

simple_output_str(result) ==
    output_text(NO_RESULT, NULL_STR, result, NULL_STR)

descriptive_output_str(result, unit_name, in_name, out_name) ==
    output_text(NO_RESULT, NULL_STR, result,
                printed_name(build_unit_str(unit_name, OUTPUT_UNIT, in_name, out_name)))

verbose_output_str(result, orig_val, in_unit_name, out_unit_name, last, in_name, out_name) ==
    output_text(IF CharAt(orig_val, 0) # ":" THEN strtod(orig_val) ELSE last,
                printed_name(build_unit_str(in_unit_name, INPUT_UNIT, in_name, out_name)),
                result,
                printed_name(build_unit_str(out_unit_name, OUTPUT_UNIT, in_name, out_name)))

\* generate_output after its call of get_conversion, which left r: no
\* string on an error, otherwise the string of the format
generate_output(fmt, r, token0, token1, token2) ==
    IF r.ret # 0 THEN NO_OUTPUT
    ELSE IF fmt = SIMPLE_FORMAT THEN simple_output_str(r.conversion)
    ELSE IF fmt = DESCRIPTIVE_FORMAT
    THEN descriptive_output_str(r.conversion, token2,
                                r.last_input_name, r.last_output_name)
    ELSE verbose_output_str(r.conversion, token0, token1, token2, r.last_number,
                            r.last_input_name, r.last_output_name)

----------------------------------------------------------------------------
(* Interpreter.c: get_type_str *)

get_type_str(unit_type) ==
    CASE unit_type = LENGTH -> length
      [] unit_type = VOLUME -> volume
      [] unit_type = AREA -> area
      [] unit_type = ENERGY -> energy
      [] unit_type = POWER -> power
      [] unit_type = MASS -> mass
      [] unit_type = FORCE -> force
      [] unit_type = TORQUE -> torque
      [] unit_type = SPEED -> speed
      [] unit_type = PRESSURE -> pressure
      [] unit_type = TEMP -> temp
      [] OTHER -> length

----------------------------------------------------------------------------
(* Interpreter.c: batch_convert *)

\* where strtod( str, &input_end ) leaves input_end, as an index of str: past
\* the sign and "inf", "nan" or the digits with at most one '.'; 0 when no
\* number can be read
strtod_end(str) ==
    LET pos  == IF CharAt(str, 0) \in {"-", "+"} THEN 1 ELSE 0
        word == <<CharAt(str, pos), CharAt(str, pos + 1), CharAt(str, pos + 2)>>
        part(k) == { i \in 0..(k - 1) : CharAt(str, pos + i) \in Digits \cup {"."} }
        runs == { k \in 0..(Len(str) - pos) :
                     /\ Cardinality(part(k)) = k
                     /\ Cardinality({ i \in part(k) : CharAt(str, pos + i) = "." }) <= 1 }
        run  == CHOOSE k \in runs : \A j \in runs : j <= k
    IN  IF word \in { <<"i", "n", "f">>, <<"n", "a", "n">> } THEN pos + 3
        ELSE IF \E i \in part(run) : CharAt(str, pos + i) \in Digits THEN pos + run
        ELSE 0

is_double(str) ==
    IF str # <<":">> /\ CharAt(str, strtod_end(str)) # NULL_CHAR THEN 0 ELSE 1

\* the line buffer after "replace newline character"
newline_replaced(line_buffer) ==
    LET at == { pos \in 1..Len(line_buffer) : line_buffer[pos] = "\n" }
    IN  IF at = {} THEN line_buffer
        ELSE SubSeq(line_buffer, 1, (CHOOSE pos \in at : \A other \in at : pos <= other) - 1)

\* the tokens strtok( ..., " " ) finds in str from pos on
RECURSIVE strtok_line(_, _, _)
strtok_line(str, pos, token) ==
    IF pos > Len(str)
    THEN (IF token = << >> THEN << >> ELSE << token >>)
    ELSE IF str[pos] # " "
    THEN strtok_line(str, pos + 1, Append(token, str[pos]))
    ELSE IF token = << >>
    THEN strtok_line(str, pos + 1, << >>)
    ELSE << token >> \o strtok_line(str, pos + 1, << >>)

\* token[0], token[1], token[2] of a line; NULL_STR stands for NULL
line_tokens(line_buffer) ==
    LET found == strtok_line(newline_replaced(line_buffer), 1, << >>)
    IN  [i \in 1..3 |-> IF i <= Len(found) THEN found[i] ELSE NULL_STR]

\* the test before "continue"
line_skipped(token) ==
    \/ token[1] # NULL_STR /\ is_double(token[1]) = 0
    \/ token[2] = NULL_STR
    \/ token[3] = NULL_STR

\* no batch conversion
NO_BATCH ==
    [input |-> << >>, pos |-> 1, eof |-> FALSE,
     token |-> <<NULL_STR, NULL_STR, NULL_STR>>, output |-> << >>]

----------------------------------------------------------------------------
(* Inputs *)

\* the numerals typed in a session: recall, a number, an infinity
NumberTexts ==
    { <<":">>, <<"2">>, <<"i", "n", "f">> }

\* the unit strings typed in a session: names of the list, recall with and
\* without prefix, a prefixed name
UnitTokens ==
    { <<"m">>, <<"C">>, <<"F">>,
      <<":">>, <<"_", "k", ":">>, <<"_", "k", "F">> }

\* the numerals and unit strings of a session of mistyped units: a name of
\* the list, an unknown name, recall, and the escape sequences gone wrong
SyntaxNumberTexts ==
    { <<"2">> }

SyntaxTokens ==
    { <<"m">>, <<"x">>, <<":">>, <<"_", "k", "m">>,
      <<"_">>, <<"_", ":">>, <<"_", "x", "m">>, <<"_", "k">>,
      <<":", "m">>, <<"_", "k", ":", "m">>,
      <<"_", "k", "_", "k", ":">> }

\* the unit strings of a session of failures, typed with a number and an
\* infinity: names of two types, an unknown name, recall, and one string
\* for each error of the parser
OrderTokens ==
    { <<"m">>, <<"C">>, <<"x">>, <<":">>, <<"_">>, <<"_", "k">>, <<":", "m">> }

\* the numerals and unit strings of a session of unusual numbers: zero, a
\* negative number and its product with the multiplier of k, NaN and the
\* infinities; a multiplicative unit and an affine one, with and without
\* prefix, and a second unit of length
ValueTexts ==
    { <<"0">>, <<"-", "3">>, <<"-", "3", "0", "0", "0">>,
      <<"n", "a", "n">>, <<"i", "n", "f">>, <<"-", "i", "n", "f">> }

ValueTokens ==
    { <<"m">>, <<"f">>, <<"_", "k", "m">>, <<"F">>, <<"_", "k", "F">> }

\* the lines of a session that prints units: a number, two names of one
\* unit, recall with and without prefix, in each format
OutputTexts ==
    { <<"2">> }

OutputTokens ==
    { <<"m">>, <<"m", "t">>, <<":">>, <<"_", "k", ":">> }

Formats == { SIMPLE_FORMAT, DESCRIPTIVE_FORMAT, VERBOSE_FORMAT }

\* the lines of a session of temperatures: four numbers and recall, the
\* four units of temperature
TempTexts ==
    { <<"3", "2">>, <<"0">>, <<"1", "0", "0">>, <<"-", "4", "0">>, <<":">> }

TempTokens ==
    { <<"F">>, <<"C">>, <<"K">>, <<"K", "-">> }

\* the numbers and prefixes converted there and back
TripValues == { Fin(n, 1, 0) : n \in (-MaxTripNum)..MaxTripNum }

TripPrefixes == { One, get_prefix_value("k") }

\* the lines of units.dat: the four keys, each with a text, and a comment
names_a_b == [key |-> "names=", text |-> <<"a", ",", "b", "\n">>]
type_mass == [key |-> "type=", text |-> <<"m", "a", "s", "s", "\n">>]
factor_2 == [key |-> "factor=", text |-> <<"2", "\n">>]
offset_1 == [key |-> "offset=", text |-> <<"1", "\n">>]
comment == [key |-> "#", text |-> <<" ", "\n">>]

CfgLines == { names_a_b, type_mass, factor_2, offset_1, comment }

\* the last line of a file may lack its newline
LastLines ==
    { [key |-> "offset=", text |-> <<"1">>], [key |-> "#", text |-> <<" ">>] }

\* every units.dat of at most MaxLines lines
CfgFiles ==
    UNION { [1..n -> CfgLines] : n \in 0..MaxLines }
      \cup UNION { { Append(lines, last) : lines \in [1..n -> CfgLines], last \in LastLines }
                   : n \in 0..(MaxLines - 1) }

\* the groups of four lines names=, type=, factor=, offset=: the type a
\* known one or an unknown one, the factor a number, zero or no number
Clusters ==
    { << names_a_b, type, factor, offset_1 >> :
         type \in { type_mass, [key |-> "type=", text |-> <<"n", "o", "n", "e", "\n">>] },
         factor \in { factor_2, [key |-> "factor=", text |-> <<"0", "\n">>],
                      [key |-> "factor=", text |-> <<"x", "\n">>] } }

\* every units.dat made of at most MaxClusters groups
ClusterFiles ==
    UNION { { [pos \in 1..(4 * n) |-> groups[((pos - 1) \div 4) + 1][((pos - 1) % 4) + 1]] :
                groups \in [1..n -> Clusters] } : n \in 0..MaxClusters }

\* the texts of type= lines: the twelve type names, a name that is none and
\* a name cut short, each alone and followed by a newline or by more
KindTexts ==
    { name \o rest :
        name \in { length, volume, area, energy, power, mass, force, torque, speed,
                    pressure, temp, feconomy, <<"n", "o", "n", "e">>, <<"l", "e", "n">> },
        rest \in { << >>, <<"\n">>, <<"s">>, <<"s", "\n">>, <<" ">>, <<" ", "\n">>,
                    <<"2">>, <<"2", "\n">> } }

\* what the line buffer, not initialised, may hold when the first fgets of
\* an iteration fails
GarbageLines == { names_a_b, comment }

\* the lines of a batch input file: a conversion, an unknown unit, a first
\* token that is no number, a line of two tokens, recall, and a prefix
\* followed by '_'
BatchLines ==
    { [text |-> <<"2", " ", "m", " ", "f", "\n">>],
      [text |-> <<"2", " ", "m", " ", "x", "\n">>],
      [text |-> <<"x", " ", "m", " ", "f", "\n">>],
      [text |-> <<"2", " ", "m", "\n">>],
      [text |-> <<":", " ", ":", " ", ":", "\n">>],
      [text |-> <<"2", " ", "_", "k", "_", " ", "m", "\n">>] }

LastBatchLines ==
    { [text |-> <<"2", " ", "m", " ", "f">>], [text |-> <<"2", " ", "m", " ", "x">>] }

\* every input file of at most MaxBatchLines lines
BatchFiles ==
    UNION { [1..n -> BatchLines] : n \in 0..MaxBatchLines }
      \cup UNION { { Append(lines, last) : lines \in [1..n -> BatchLines], last \in LastBatchLines }
                   : n \in 0..(MaxBatchLines - 1) }

\* what the line buffer, not initialised, may hold when fgets fails: the
\* first token of an earlier line, or a whole line
BatchGarbage ==
    { [text |-> <<"2">>], [text |-> <<"2", " ", "m", " ", "f">>] }

\* what may lie in memory after the terminator of a string
Beyond == { <<>>, <<":">>, <<"m">> }

\* the strings for which get_unit_by_name reads past the terminator
reads_beyond(str) ==
    LET esc == check_escape_sequences(str, One)
    IN  esc.ret = 0 /\ esc.str = <<"_">>

BeyondOf(str) == IF reads_beyond(str) THEN Beyond ELSE { <<>> }

\* every string of at most MaxTokLen characters of the alphabet
Alphabet == {":", "_", "k", "x"}

RECURSIVE StringsOfLen(_)
StringsOfLen(len) ==
    IF len = 0 THEN { <<>> }
    ELSE { Append(str, c) : str \in StringsOfLen(len - 1), c \in Alphabet }

AllTokens == UNION { StringsOfLen(len) : len \in 0..MaxTokLen }

\* every name of at most MaxNameLen characters of the alphabet: two letters
\* that make names of the list, and the two characters of the escape
\* sequences
NameAlphabet == {"m", "t", "_", ":"}

RECURSIVE NamesOfLen(_)
NamesOfLen(len) ==
    IF len = 0 THEN { <<>> }
    ELSE { Append(name, c) : name \in NamesOfLen(len - 1), c \in NameAlphabet }

AllNames == UNION { NamesOfLen(len) : len \in 0..MaxNameLen }

\* get_unit_by_name reads past the terminator of the name '_'
NameBeyondOf(name) == IF name = <<"_">> THEN Beyond ELSE { <<>> }

----------------------------------------------------------------------------
(* The session: a sequence of get_conversion calls *)

\* the state at the start of the program, but for the file
InitProgram ==
    /\ last_number = Fin(0, 1, 0)
    /\ last_input_name = NULL_STR
    /\ last_output_name = NULL_STR
    /\ last_input_unit = NULL
    /\ last_output_unit = NULL
    /\ error_code = 0
    /\ error_msg = NULL_STR
    /\ number = NO_CALL
    /\ input_unit_name = NO_CALL
    /\ output_unit_name = NO_CALL
    /\ ret = EXIT_SUCCESS
    /\ conversion = NO_RESULT
    /\ input = Fin(0, 1, 0)
    /\ input_prefix = One
    /\ output_prefix = One
    /\ input_unit = NULL
    /\ output_unit = NULL
    /\ escape_arg = NO_CALL
    /\ escape_result = [ret |-> 0, str |-> NO_CALL, prefix |-> One]
    /\ format = SIMPLE_FORMAT
    /\ output_str = NO_OUTPUT
    /\ lookup_arg = [name |-> NO_CALL, which |-> INPUT_UNIT]
    /\ lookup_result = NULL
    /\ round_trip = NO_TRIP
    /\ file_pos = 1
    /\ end_of_file = FALSE
    /\ loaded = << >>
    /\ kind = [str |-> NO_CALL, code |-> -1, name |-> NO_CALL]

Init == InitProgram /\ units_cfg = << >> /\ batch = NO_BATCH

\* what a call of get_conversion that left r does to the state
CallEffects(r, text, in_name, out_name) ==
        /\ number' = text
        /\ input_unit_name' = in_name
        /\ output_unit_name' = out_name
        /\ ret' = r.ret
        /\ conversion' = r.conversion
        /\ input' = r.input
        /\ input_prefix' = r.input_prefix
        /\ output_prefix' = r.output_prefix
        /\ input_unit' = r.input_unit
        /\ output_unit' = r.output_unit
        /\ last_number' = r.last_number
        /\ last_input_name' = r.last_input_name
        /\ last_output_name' = r.last_output_name
        /\ last_input_unit' = r.last_input_unit
        /\ last_output_unit' = r.last_output_unit
        /\ error_code' = r.error_code
        /\ error_msg' = r.error_msg

GetConversion(text, in_name, out_name, beyond_in, beyond_out) ==
    \E r \in {get_conversion(text, in_name, out_name, beyond_in, beyond_out)} :
        /\ CallEffects(r, text, in_name, out_name)
        /\ UNCHANGED <<escape_vars, output_vars, lookup_vars, round_trip, loader_vars, batch, kind>>

Next ==
    \E text \in NumberTexts, in_name \in UnitTokens, out_name \in UnitTokens :
        \E beyond_in \in BeyondOf(in_name), beyond_out \in BeyondOf(out_name) :
            GetConversion(text, in_name, out_name, beyond_in, beyond_out)

Spec == Init /\ [][Next]_vars

\* the same session, typed with the mistyped units
NextSyntax ==
    \E text \in SyntaxNumberTexts, in_name \in SyntaxTokens, out_name \in SyntaxTokens :
        \E beyond_in \in BeyondOf(in_name), beyond_out \in BeyondOf(out_name) :
            GetConversion(text, in_name, out_name, beyond_in, beyond_out)

SpecSyntax == Init /\ [][NextSyntax]_vars

\* the same session, typed with the failures
NextOrder ==
    \E text \in { <<"2">>, <<"i", "n", "f">> } :
      \E in_name \in OrderTokens, out_name \in OrderTokens :
        \E beyond_in \in BeyondOf(in_name), beyond_out \in BeyondOf(out_name) :
            GetConversion(text, in_name, out_name, beyond_in, beyond_out)

SpecOrder == Init /\ [][NextOrder]_vars

\* the same session, typed with the unusual numbers
NextValues ==
    \E text \in ValueTexts, in_name \in ValueTokens, out_name \in ValueTokens :
        \E beyond_in \in BeyondOf(in_name), beyond_out \in BeyondOf(out_name) :
            GetConversion(text, in_name, out_name, beyond_in, beyond_out)

SpecValues == Init /\ [][NextValues]_vars

----------------------------------------------------------------------------
(* The session with its output: a sequence of generate_output calls *)

GenerateOutput(fmt, token0, token1, token2, beyond_in, beyond_out) ==
    \E r \in {get_conversion(token0, token1, token2, beyond_in, beyond_out)} :
        /\ CallEffects(r, token0, token1, token2)
        /\ format' = fmt
        /\ output_str' = generate_output(fmt, r, token0, token1, token2)
        /\ UNCHANGED <<escape_vars, lookup_vars, round_trip, loader_vars, batch, kind>>

NextOutput ==
    \E fmt \in Formats, token0 \in OutputTexts :
        \E token1 \in OutputTokens, token2 \in OutputTokens :
            \E beyond_in \in BeyondOf(token1), beyond_out \in BeyondOf(token2) :
                GenerateOutput(fmt, token0, token1, token2, beyond_in, beyond_out)

SpecOutput == Init /\ [][NextOutput]_vars

\* one iteration of the while loop of batch_convert
BatchIteration(garbage) ==
    /\ ~batch.eof
    /\ \E token \in {line_tokens(fgets(batch.input, batch.pos, garbage).text)} :
          IF line_skipped(token)
          THEN /\ batch' = [batch EXCEPT !.pos = @ + 1,
                                         !.eof = feof(batch.input, batch.pos),
                                         !.token = token]
               /\ UNCHANGED <<session_vars, call_vars, output_vars>>
          ELSE \E beyond_in \in BeyondOf(token[2]), beyond_out \in BeyondOf(token[3]) :
               \E r \in {get_conversion(token[1], token[2], token[3], beyond_in, beyond_out)} :
                  /\ CallEffects(r, token[1], token[2], token[3])
                  /\ output_str' = generate_output(format, r, token[1], token[2], token[3])
                  /\ UNCHANGED format
                  /\ batch' = [batch EXCEPT !.pos = @ + 1,
                                            !.eof = feof(batch.input, batch.pos),
                                            !.token = token,
                                            !.output = IF r.ret # 0 THEN @
                                                       ELSE Append(@, output_str')]
    /\ UNCHANGED <<escape_vars, lookup_vars, round_trip, loader_vars, kind>>

InitBatch ==
    /\ InitProgram
    /\ units_cfg = << >>
    /\ batch \in { [NO_BATCH EXCEPT !.input = lines] : lines \in BatchFiles }

NextBatch == \E garbage \in BatchGarbage : BatchIteration(garbage)

SpecBatch == InitBatch /\ [][NextBatch]_vars

\* the same session, typed with the temperatures
NextTemp ==
    \E text \in TempTexts, in_name \in TempTokens, out_name \in TempTokens :
        \E beyond_in \in BeyondOf(in_name), beyond_out \in BeyondOf(out_name) :
            GetConversion(text, in_name, out_name, beyond_in, beyond_out)

SpecTemp == Init /\ [][NextTemp]_vars

----------------------------------------------------------------------------
(* The formula on its own: a conversion and the conversion back *)

\* converts x from A to B, and the result from B to A; as get_conversion,
\* it converts only between units of one type
RoundTrip(x, in_prefix, A, out_prefix, B) ==
    /\ ~types_mismatched(A, B)
    /\ \E there \in {conversion_value(x, in_prefix, A, out_prefix, B)} :
          round_trip' =
              [x |-> x, in_prefix |-> in_prefix, A |-> A,
               out_prefix |-> out_prefix, B |-> B, there |-> there,
               back |-> conversion_value(there, out_prefix, B, in_prefix, A)]
    /\ UNCHANGED <<session_vars, call_vars>>
    /\ UNCHANGED <<escape_vars, output_vars, lookup_vars, loader_vars, batch, kind>>

NextTrip ==
    \E x \in TripValues, in_prefix \in TripPrefixes, out_prefix \in TripPrefixes :
        \E A \in Units, B \in Units : RoundTrip(x, in_prefix, A, out_prefix, B)

SpecTrip == Init /\ [][NextTrip]_vars

----------------------------------------------------------------------------
(* The loader: the while loop of load_units_list over a units.dat *)

InitLoad == InitProgram /\ units_cfg \in CfgFiles /\ batch = NO_BATCH

LoadIteration(garbage) ==
    /\ ~end_of_file
    /\ \E r \in {load_iteration(units_cfg, file_pos, garbage, loaded)} :
          /\ file_pos' = r.file_pos
          /\ end_of_file' = r.end_of_file
          /\ loaded' = r.loaded
    /\ UNCHANGED units_cfg
    /\ UNCHANGED <<session_vars, call_vars>>
    /\ UNCHANGED <<escape_vars, output_vars, lookup_vars, round_trip, batch, kind>>

NextLoad == \E garbage \in GarbageLines : LoadIteration(garbage)

SpecLoad == InitLoad /\ [][NextLoad]_vars

\* the loader over the files made of groups
InitClusters == InitProgram /\ units_cfg \in ClusterFiles /\ batch = NO_BATCH

SpecClusters == InitClusters /\ [][NextLoad]_vars

----------------------------------------------------------------------------
(* The type names: get_unit_type and get_type_str applied to every text *)

GetTypeStr(str) ==
    /\ kind' = [str |-> str, code |-> get_unit_type(str),
                name |-> get_type_str(get_unit_type(str))]
    /\ UNCHANGED <<session_vars, call_vars, escape_vars, output_vars>>
    /\ UNCHANGED <<lookup_vars, round_trip, loader_vars, batch>>

NextKind == \E str \in KindTexts : GetTypeStr(str)

SpecKind == Init /\ [][NextKind]_vars

----------------------------------------------------------------------------
(* The parser on its own: check_escape_sequences applied to every string *)

CheckEscape(str) ==
    /\ escape_arg' = str
    /\ escape_result' = check_escape_sequences(str, One)
    /\ UNCHANGED <<session_vars, call_vars>>
    /\ UNCHANGED <<output_vars, lookup_vars, round_trip, loader_vars, batch, kind>>

NextParse == \E str \in AllTokens : CheckEscape(str)

SpecParse == Init /\ [][NextParse]_vars

\* the parser applied to '_' and a character: each prefix letter, and
\* characters that are none, alone or with something after it.  '_' alone
\* hands the terminator to get_prefix_value.
PrefixTokens ==
    { <<"_">> }
      \cup { <<"_", c>> \o rest :
                c \in PrefixLetters \cup {":", "_", "K", "U", "x", "0"},
                rest \in { << >>, <<":">>, <<"m">>, <<":", "m">> } }

NextPrefix == \E str \in PrefixTokens : CheckEscape(str)

SpecPrefix == Init /\ [][NextPrefix]_vars

----------------------------------------------------------------------------
(* The lookup on its own: get_unit_by_name applied to every name *)

LookUp(name, which, beyond) ==
    \E got \in {get_unit_by_name(name, which, beyond, last_input_unit, last_output_unit)} :
        /\ lookup_arg' = [name |-> name, which |-> which]
        /\ lookup_result' = got.unit
        /\ last_input_unit' = got.last_input_unit
        /\ last_output_unit' = got.last_output_unit
        /\ UNCHANGED <<last_number, last_input_name, last_output_name, error_code, error_msg>>
        /\ UNCHANGED <<call_vars, escape_vars, output_vars, round_trip, loader_vars, batch, kind>>

NextLookup ==
    \E name \in AllNames, which \in {INPUT_UNIT, OUTPUT_UNIT} :
        \E beyond \in NameBeyondOf(name) : LookUp(name, which, beyond)

SpecLookup == Init /\ [][NextLookup]_vars

----------------------------------------------------------------------------
(* Vocabulary of the properties *)

\* a call of get_conversion has been made
Called == number # NO_CALL

\* the string is ':' or '_P:' with P a prefix letter
IsRecallForm(str) ==
    \/ str = <<":">>
    \/ Len(str) = 3 /\ str[1] = "_" /\ str[2] \in PrefixLetters /\ str[3] = ":"

\* the string has no escape sequence: it does not start with ':' or '_'
IsPlainName(str) == Len(str) = 0 \/ str[1] \notin {":", "_"}

\* the string is '_P' and a non-empty rest that does not start with ':'
IsPrefixedName(str) ==
    Len(str) >= 3 /\ str[1] = "_" /\ str[2] \in PrefixLetters /\ str[3] # ":"

\* the name a literal string asks for
LiteralName(str) == IF IsPlainName(str) THEN str ELSE SubSeq(str, 3, Len(str))

\* the multiplier typed with the string: that of P for '_P...', otherwise 1
TypedMultiplier(str) ==
    IF Len(str) >= 2 /\ str[1] = "_" /\ str[2] \in PrefixLetters
    THEN Fin(1, 1, PrefixExponent(str[2]))
    ELSE Fin(1, 1, 0)

\* the units of the list that have the name
UnitsNamed(name) ==
    { u \in Units : \E pos \in DOMAIN list_handle[u].unit_name :
                        list_handle[u].unit_name[pos] = name }

\* the first unit of the list that has the name, NULL when there is none
FirstNamed(name) ==
    IF UnitsNamed(name) = {} THEN NULL
    ELSE CHOOSE u \in UnitsNamed(name) : \A v \in UnitsNamed(name) : u <= v

----------------------------------------------------------------------------
(* Properties of the session *)

\* C1: a get_conversion call that returns an error leaves the last input
\* unit and the last output unit as they were before the call; only a
\* successful conversion changes them.
C1_ErrorKeepsLastUnits ==
    [][ret' # EXIT_SUCCESS =>
          /\ last_input_unit' = last_input_unit
          /\ last_output_unit' = last_output_unit]_vars

\* C2: the number that ':' recalls is the numeric input of the most recent
\* successful conversion: a successful call leaves its input as the last
\* number, a failed call leaves the last number as it was.
C2_RecallsLastSuccessfulNumber ==
    [][/\ ret' = EXIT_SUCCESS => last_number' = input'
       /\ ret' # EXIT_SUCCESS => last_number' = last_number]_vars

\* C3: after a successful conversion whose unit strings are literal names,
\* each with or without a metric prefix, a directly following conversion of
\* an accepted number with ':' for both units succeeds, resolves to the same
\* two units, and has multiplier 1 on both sides.
C3_RecallAfterSuccess ==
    [][( /\ Called /\ ret = EXIT_SUCCESS
         /\ IsPlainName(input_unit_name) \/ IsPrefixedName(input_unit_name)
         /\ IsPlainName(output_unit_name) \/ IsPrefixedName(output_unit_name)
         /\ input_unit_name' = <<":">> /\ output_unit_name' = <<":">>
         /\ ret' # INVALID_INPUT )
       => /\ ret' = EXIT_SUCCESS
          /\ input_unit' = input_unit /\ output_unit' = output_unit
          /\ input_prefix' = Fin(1, 1, 0) /\ output_prefix' = Fin(1, 1, 0)]_vars

\* a conversion with ':' for both units has succeeded on the units that a
\* conversion from a prefixed F to C left behind
C3_Witness ==
    /\ input_unit_name = <<":">> /\ output_unit_name = <<":">>
    /\ ret = EXIT_SUCCESS /\ conversion # NO_RESULT
    /\ input_unit # NULL /\ output_unit # NULL
    /\ last_input_name = <<"F">> /\ last_output_name = <<"C">>
    /\ input_unit = FirstNamed(<<"F">>) /\ output_unit = FirstNamed(<<"C">>)
    /\ input_prefix = Fin(1, 1, 0) /\ output_prefix = Fin(1, 1, 0)

\* C4: while no input unit has been resolved, ':' or '_P:' as the input
\* unit of an accepted number fails with RECALL_UNSET and reports the input
\* unit; while no output unit has been resolved, ':' or '_P:' as the output
\* unit, after an input unit that resolved, fails with RECALL_UNSET and
\* reports the output unit.
C4_RecallUnset ==
    [][/\ ( /\ last_input_unit = NULL
            /\ IsRecallForm(input_unit_name')
            /\ ret' # INVALID_INPUT )
          => (ret' = RECALL_UNSET /\ error_msg' = get_input_unit)
       /\ ( /\ last_output_unit = NULL
            /\ IsRecallForm(output_unit_name')
            /\ ret' # INVALID_INPUT
            /\ input_unit' # NULL )
          => (ret' = RECALL_UNSET /\ error_msg' = get_output_unit)]_vars

\* '_k:' as the input unit has failed with RECALL_UNSET for the input unit
C4_Witness ==
    /\ input_unit_name = <<"_", "k", ":">>
    /\ last_input_unit = NULL
    /\ ret = RECALL_UNSET /\ error_msg = get_input_unit
    /\ conversion = NO_RESULT

\* C5: on success the result is
\* ((x * m_in + in.offset) * (in.factor / out.factor) - out.offset) / m_out
\* with x the numeral converted, m_in and m_out the multipliers of the
\* prefixes typed (1 without prefix), in and out the resolved units.
C5_ConversionFormula ==
    (Called /\ ret = EXIT_SUCCESS) =>
        LET x     == last_number
            m_in  == TypedMultiplier(input_unit_name)
            m_out == TypedMultiplier(output_unit_name)
            in    == list_handle[input_unit]
            out   == list_handle[output_unit]
            scaled  == DAdd(DMul(x, m_in), in.offset)
            ratio   == DDiv(in.conversion_factor, out.conversion_factor)
            shifted == DSub(DMul(scaled, ratio), out.offset)
        IN  conversion = DDiv(shifted, m_out)

\* 2 _kF has been converted to C: (2 * 1000 - 32) * 5/9 = 3280/3
C5_Witness ==
    /\ number = <<"2">>
    /\ input_unit_name = <<"_", "k", "F">> /\ output_unit_name = <<"C">>
    /\ ret = EXIT_SUCCESS
    /\ conversion = Fin(3280, 3, 0)

\* C6: when both unit strings resolve to units of different types the call
\* returns INCOMPATIBLE_UNITS and writes no result; when the types are equal
\* it does not return INCOMPATIBLE_UNITS; and it returns INCOMPATIBLE_UNITS
\* only when both units resolved.
C6_IncompatibleUnits ==
    /\ (Called /\ input_unit # NULL /\ output_unit # NULL) =>
          IF list_handle[input_unit].unit_type # list_handle[output_unit].unit_type
          THEN ret = INCOMPATIBLE_UNITS /\ conversion = NO_RESULT
          ELSE ret # INCOMPATIBLE_UNITS
    /\ ret = INCOMPATIBLE_UNITS => (input_unit # NULL /\ output_unit # NULL)

\* m to C has failed with INCOMPATIBLE_UNITS, nothing written
C6_Witness ==
    /\ input_unit = FirstNamed(<<"m">>) /\ output_unit = FirstNamed(<<"C">>)
    /\ list_handle[input_unit].conversion_factor
         = list_handle[output_unit].conversion_factor
    /\ ret = INCOMPATIBLE_UNITS
    /\ conversion = NO_RESULT

\* C7: numeral recall and unit recall are independent.  With ':' as the
\* number and two plain names, the last number is converted and each unit
\* is the first unit of the list with that name, whatever the recalled
\* units are; with a number typed and ':' for both units, the number typed
\* is converted, whatever the last number is, and the units are the
\* recalled ones.
C7_RecallsIndependent ==
    [][/\ ( /\ number' = <<":">>
            /\ IsPlainName(input_unit_name') /\ IsPlainName(output_unit_name')
            /\ ret' # INVALID_INPUT )
          => /\ input' = last_number
             /\ input_unit' = FirstNamed(input_unit_name')
             /\ output_unit' = FirstNamed(output_unit_name')
       /\ ( /\ number' = <<"2">>
            /\ input_unit_name' = <<":">> /\ output_unit_name' = <<":">> )
          => /\ input' = Fin(2, 1, 0)
             /\ input_unit' = last_input_unit
             /\ input_unit' # NULL => output_unit' = last_output_unit]_vars

\* ':' as the number has converted the recalled 2 from F to C
C7_Witness ==
    /\ number = <<":">>
    /\ input_unit_name = <<"F">> /\ output_unit_name = <<"C">>
    /\ ret = EXIT_SUCCESS
    /\ input = Fin(2, 1, 0)
    /\ conversion = Fin(-50, 3, 0)

\* C22: a call of get_conversion that directly follows a call with the
\* same three strings returns what that call returned and writes the same
\* result, whatever the session state was before the first of the two.
C22_RetryIsDeterministic ==
    [][( /\ Called
         /\ number' = number
         /\ input_unit_name' = input_unit_name
         /\ output_unit_name' = output_unit_name )
       => (ret' = ret /\ conversion' = conversion)]_vars

\* the last number has been converted from the recalled input unit, with
\* the prefix k, to the recalled output unit: the outcome rests on the
\* session state alone
C22_Witness ==
    /\ number = <<":">>
    /\ input_unit_name = <<"_", "k", ":">> /\ output_unit_name = <<":">>
    /\ ret = EXIT_SUCCESS
    /\ input = Fin(2, 1, 0)
    /\ input_unit = FirstNamed(<<"F">>) /\ output_unit = FirstNamed(<<"C">>)
    /\ conversion = Fin(3280, 3, 0)

----------------------------------------------------------------------------
(* Properties of the batch conversion *)

\* C23: every line of the batch input that has three tokens adds exactly
\* one string to the output, whether or not it can be interpreted and
\* converted, and the batch goes on to the next line.
C23_EveryLineAnswered ==
    [][( /\ batch' # batch
         /\ batch.pos <= Len(batch.input)
         /\ batch'.token[3] # NULL_STR )
       => ( /\ Len(batch'.output) = Len(batch.output) + 1
            /\ batch'.pos = batch.pos + 1
            /\ batch'.eof = feof(batch.input, batch.pos) )]_vars

\* C25: no unit string that check_escape_sequences accepts makes
\* get_unit_by_name read past the terminator of the string: the name handed
\* to the lookup is never '_' alone, after which "name += 2" skips the
\* terminator.  (Stated for the input side, which is looked up whenever the
\* number is accepted.)
C25_LookupWithinString ==
    (Called /\ ret # INVALID_INPUT) =>
        LET esc == check_escape_sequences(input_unit_name, One)
        IN  esc.ret \in {0, RECALL_LAST} =>
                ~(CharAt(esc.str, 0) = "_" /\ CharAt(esc.str, 1) = NULL_CHAR)

\* C26: after any sequence of get_conversion calls the last input name is
\* set exactly when the last input unit is set, and it is then one of the
\* names of that unit; the same holds for the last output name and the last
\* output unit.
C26_LastNameNamesLastUnit ==
    /\ last_input_name # NULL_STR <=> last_input_unit # NULL
    /\ last_input_unit # NULL => last_input_unit \in UnitsNamed(last_input_name)
    /\ last_output_name # NULL_STR <=> last_output_unit # NULL
    /\ last_output_unit # NULL => last_output_unit \in UnitsNamed(last_output_name)

----------------------------------------------------------------------------
(* Properties of the mistyped units *)

\* C8: the recalled unit is used for a side if and only if the string of
\* that side is ':' or '_P:'; every other string the parser accepts is
\* looked up by its literal name and fails with UNIT_NF when no unit has
\* that name.  (Stated for the input side of an accepted number.)
C8_RecallOnlyForRecallForms ==
    (Called /\ ret # INVALID_INPUT) =>
        /\ ( /\ IsPlainName(input_unit_name) \/ IsPrefixedName(input_unit_name)
             /\ UnitsNamed(LiteralName(input_unit_name)) = {} )
           => ret = UNIT_NF
        /\ ( IsPlainName(input_unit_name) \/ IsPrefixedName(input_unit_name) )
           => input_unit = FirstNamed(LiteralName(input_unit_name))

\* C10: a unit string that starts with '_' and whose second character is
\* not a prefix letter ('_' alone and '_:' included) makes the conversion
\* fail with UNKNOWN_PREFIX: as the input unit of an accepted number, and as
\* the output unit after an input unit that resolved.
C10_UnknownPrefix ==
    LET Unknown(str) ==
            /\ Len(str) >= 1 /\ str[1] = "_"
            /\ Len(str) = 1 \/ str[2] \notin PrefixLetters
    IN  (Called /\ ret # INVALID_INPUT) =>
            /\ Unknown(input_unit_name) => ret = UNKNOWN_PREFIX
            /\ (input_unit # NULL /\ Unknown(output_unit_name)) => ret = UNKNOWN_PREFIX

\* '_' alone as the output unit has failed with UNKNOWN_PREFIX
C10_Witness ==
    /\ input_unit # NULL
    /\ output_unit_name = <<"_">>
    /\ ret = UNKNOWN_PREFIX
    /\ conversion = NO_RESULT

\* C11: a unit string that is exactly '_P', P a prefix letter, makes the
\* conversion fail with NO_NAME_GIVEN and no result: as the input unit of an
\* accepted number, and as the output unit after an input unit that resolved.
C11_NoNameGiven ==
    LET Bare(str) == Len(str) = 2 /\ str[1] = "_" /\ str[2] \in PrefixLetters
    IN  (Called /\ ret # INVALID_INPUT) =>
            /\ Bare(input_unit_name) =>
                  (ret = NO_NAME_GIVEN /\ conversion = NO_RESULT)
            /\ (input_unit # NULL /\ Bare(output_unit_name)) =>
                  (ret = NO_NAME_GIVEN /\ conversion = NO_RESULT)

\* '_k' as the input unit has failed with NO_NAME_GIVEN
C11_Witness ==
    /\ number = <<"2">>
    /\ input_unit_name = <<"_", "k">>
    /\ ret = NO_NAME_GIVEN
    /\ input_unit = NULL
    /\ conversion = NO_RESULT

\* C12: a unit string that is ':' or '_P:' followed by at least one more
\* character makes the conversion fail with NO_NAME_ALLOWED: as the input
\* unit of an accepted number, and as the output unit after an input unit
\* that resolved.  It does so too while no unit has been remembered: the
\* parser's error comes before RECALL_UNSET.
C12_NoNameAllowed ==
    LET Trailing(str) ==
            \/ Len(str) >= 2 /\ str[1] = ":"
            \/ Len(str) >= 4 /\ str[1] = "_" /\ str[2] \in PrefixLetters /\ str[3] = ":"
    IN  (Called /\ ret # INVALID_INPUT) =>
            /\ Trailing(input_unit_name) =>
                  (ret = NO_NAME_ALLOWED /\ conversion = NO_RESULT)
            /\ (input_unit # NULL /\ Trailing(output_unit_name)) =>
                  (ret = NO_NAME_ALLOWED /\ conversion = NO_RESULT)

\* '_k:m' as the input unit has failed with NO_NAME_ALLOWED while no unit
\* had been remembered
C12_Witness ==
    /\ input_unit_name = <<"_", "k", ":", "m">>
    /\ last_input_unit = NULL /\ last_output_unit = NULL
    /\ ret = NO_NAME_ALLOWED
    /\ ret # RECALL_UNSET
    /\ conversion = NO_RESULT

\* C24: get_conversion returns its first failure in a fixed order.  An
\* infinite number gives INVALID_INPUT whatever the unit strings are; then a
\* faulty input string gives its own syntax error whatever the output string
\* is; then an input unit that does not resolve gives RECALL_UNSET or
\* UNIT_NF; then the same for the output string and the output unit; and
\* INCOMPATIBLE_UNITS is returned only when both units resolved.
C24_FirstFailureInOrder ==
    LET Fault(str) ==
            IF Len(str) >= 1 /\ str[1] = "_" /\ (Len(str) = 1 \/ str[2] \notin PrefixLetters)
            THEN UNKNOWN_PREFIX
            ELSE IF Len(str) = 2 /\ str[1] = "_"
            THEN NO_NAME_GIVEN
            ELSE IF \/ Len(str) >= 2 /\ str[1] = ":"
                    \/ Len(str) >= 4 /\ str[1] = "_" /\ str[3] = ":"
            THEN NO_NAME_ALLOWED
            ELSE 0
        Unresolved == {RECALL_UNSET, UNIT_NF}
    IN  Called =>
            /\ number = <<"i", "n", "f">> => ret = INVALID_INPUT
            /\ ret # INVALID_INPUT =>
                  IF Fault(input_unit_name) # 0 THEN ret = Fault(input_unit_name)
                  ELSE IF input_unit = NULL THEN ret \in Unresolved
                  ELSE IF Fault(output_unit_name) # 0 THEN ret = Fault(output_unit_name)
                  ELSE IF output_unit = NULL THEN ret \in Unresolved
                  ELSE ret \in {INCOMPATIBLE_UNITS, EXIT_SUCCESS}
            /\ ret = INCOMPATIBLE_UNITS => (input_unit # NULL /\ output_unit # NULL)

\* '_k' as the input unit and '_' as the output unit: the error is that of
\* the input side
C24_Witness ==
    /\ number = <<"2">>
    /\ input_unit_name = <<"_", "k">> /\ output_unit_name = <<"_">>
    /\ ret = NO_NAME_GIVEN
    /\ input_unit = NULL /\ output_unit = NULL

----------------------------------------------------------------------------
(* Properties of the numbers *)

\* C13: get_conversion fails with INVALID_INPUT, and writes no result,
\* whenever the number it reads is NaN, positive infinity or negative
\* infinity.
C13_RejectsNanAndInfinities ==
    (Called /\ input.k \in {"nan", "inf"}) =>
        (ret = INVALID_INPUT /\ conversion = NO_RESULT)

----------------------------------------------------------------------------
(* Properties of the output *)

\* C15: when a unit string is ':' or '_P:', the descriptive and the verbose
\* output print for it the first name of the unit it resolved to, after the
\* letter P when one was typed, whichever name of that unit was typed in the
\* conversion that set it.
C15_RecallPrintsFirstName ==
    LET Letter(str) == IF str = <<":">> THEN << >> ELSE << str[2] >>
        FirstName(unit) == list_handle[unit].unit_name[1]
    IN  (output_str # NO_OUTPUT /\ format # SIMPLE_FORMAT) =>
            /\ IsRecallForm(output_unit_name) =>
                  output_str.output_unit_name
                      = Letter(output_unit_name) \o FirstName(output_unit)
            /\ (format = VERBOSE_FORMAT /\ IsRecallForm(input_unit_name)) =>
                  output_str.input_unit_name
                      = Letter(input_unit_name) \o FirstName(input_unit)

----------------------------------------------------------------------------
(* Properties of the formula *)

\* C17: for units A and B of one type with offset 0 and factors other than
\* 0, and a finite x, converting x from A to B and the result from B to A
\* gives x again (exact arithmetic).
C17_RoundTrip ==
    ( /\ round_trip # NO_TRIP
      /\ round_trip.x.k = "fin"
      /\ list_handle[round_trip.A].offset = Fin(0, 1, 0)
      /\ list_handle[round_trip.B].offset = Fin(0, 1, 0)
      /\ list_handle[round_trip.A].conversion_factor # Fin(0, 1, 0)
      /\ list_handle[round_trip.B].conversion_factor # Fin(0, 1, 0) )
    => round_trip.back = round_trip.x

\* 2 km has been converted to f and back: 20000/3 f, 2 km
C17_Witness ==
    /\ round_trip.x = Fin(2, 1, 0)
    /\ round_trip.in_prefix = Fin(1000, 1, 0) /\ round_trip.out_prefix = One
    /\ round_trip.A = FirstNamed(<<"m">>) /\ round_trip.B = FirstNamed(<<"f">>)
    /\ round_trip.there = Fin(20000, 3, 0)
    /\ round_trip.there # round_trip.x
    /\ round_trip.back = Fin(2, 1, 0)

\* C19: with C and K of the same factor, C of offset 0, K of offset 273.15
\* and F of factor 5/9 and offset -32, 32 F is 0 C, 0 C is 32 F and 100 C
\* is 373.15 K.
C19_TemperatureExample ==
    Called =>
        /\ ( /\ number = <<"3", "2">>
             /\ input_unit_name = <<"F">> /\ output_unit_name = <<"C">> )
           => (ret = EXIT_SUCCESS /\ conversion = Fin(0, 1, 0))
        /\ ( /\ number = <<"0">>
             /\ input_unit_name = <<"C">> /\ output_unit_name = <<"F">> )
           => (ret = EXIT_SUCCESS /\ conversion = Fin(32, 1, 0))
        /\ ( /\ number = <<"1", "0", "0">>
             /\ input_unit_name = <<"C">> /\ output_unit_name = <<"K">> )
           => (ret = EXIT_SUCCESS /\ conversion = Fin(37315, 1, -2))

\* C19, amended: with C and K- of the same factor, C of offset 0, K- of
\* offset -273.15 and F of factor 5/9 and offset -32, 32 F is 0 C, 0 C is
\* 32 F and 100 C is 373.15 K-.
C19_TemperatureExampleNegativeOffset ==
    Called =>
        /\ ( /\ number = <<"3", "2">>
             /\ input_unit_name = <<"F">> /\ output_unit_name = <<"C">> )
           => (ret = EXIT_SUCCESS /\ conversion = Fin(0, 1, 0))
        /\ ( /\ number = <<"0">>
             /\ input_unit_name = <<"C">> /\ output_unit_name = <<"F">> )
           => (ret = EXIT_SUCCESS /\ conversion = Fin(32, 1, 0))
        /\ ( /\ number = <<"1", "0", "0">>
             /\ input_unit_name = <<"C">> /\ output_unit_name = <<"K", "-">> )
           => (ret = EXIT_SUCCESS /\ conversion = Fin(37315, 1, -2))

\* 100 C has been converted to the kelvin of offset -273.15: 373.15
C19_Witness ==
    /\ number = <<"1", "0", "0">>
    /\ input_unit_name = <<"C">> /\ output_unit_name = <<"K", "-">>
    /\ list_handle[output_unit].offset = Fin(-27315, 1, -2)
    /\ list_handle[output_unit].conversion_factor = list_handle[input_unit].conversion_factor
    /\ ret = EXIT_SUCCESS
    /\ conversion = Fin(37315, 1, -2)

----------------------------------------------------------------------------
(* Properties of the loader *)

\* the positions of the file, all read, where four lines with the keys
\* names=, type=, factor=, offset= follow each other in this order
ClustersRead ==
    { pos \in 1..(file_pos - 4) :
        /\ units_cfg[pos].key = "names=" /\ units_cfg[pos + 1].key = "type="
        /\ units_cfg[pos + 2].key = "factor=" /\ units_cfg[pos + 3].key = "offset=" }

\* C20: load_units_list adds a unit only after it has read four consecutive
\* lines that begin names=, type=, factor=, offset=, in this order: every
\* unit of the list has the names, the type, the factor and the offset of
\* four such lines, and there are no more units than such groups of lines.
\* A names= line followed by anything else gives no unit, so no unit lacks
\* a property.
C20_OnlyWholeClusters ==
    /\ \A index \in 1..Len(loaded) :
          /\ loaded[index].unit_name # << >>
          /\ \E pos \in ClustersRead :
                /\ loaded[index].unit_name = get_names_list(units_cfg[pos].text)
                /\ loaded[index].unit_type = get_unit_type(units_cfg[pos + 1].text)
                /\ loaded[index].conversion_factor = strtod(units_cfg[pos + 2].text)
                /\ loaded[index].offset = strtod(units_cfg[pos + 3].text)
    /\ Len(loaded) <= Cardinality(ClustersRead)

\* a file whose first names= line is followed by a comment and whose second
\* is followed by its three lines has been read to the end: one unit
C20_Witness ==
    /\ units_cfg = << names_a_b, comment, names_a_b, type_mass, factor_2, offset_1 >>
    /\ end_of_file
    /\ loaded = << [unit_name |-> << <<"a">>, <<"b">> >>, unit_type |-> MASS,
                    conversion_factor |-> Fin(2, 1, 0), offset |-> Fin(1, 1, 0)] >>

\* C27: once the file has been read to its end, every group of four
\* consecutive lines names=, type=, factor=, offset= has given exactly one
\* unit of the list, whatever lines precede the group.
C27_EveryClusterLoaded ==
    end_of_file => Len(loaded) = Cardinality(ClustersRead)

\* C28: every unit of the list has a type of the enumeration: a group whose
\* type= line names none of the twelve types adds no unit, so no two units
\* have the same type for want of one.
C28_TypeOfEnumeration ==
    \A index \in 1..Len(loaded) :
        loaded[index].unit_type \in { LENGTH, VOLUME, AREA, ENERGY, POWER, MASS, FORCE,
                                       TORQUE, SPEED, PRESSURE, TEMP, FECONOMY }

\* C30: every unit of the list has a conversion factor other than zero: a
\* group whose factor= line gives zero or no number adds no unit, so the
\* division by the factor of the output unit is never one by zero.
C30_FactorNotZero ==
    \A index \in 1..Len(loaded) :
        ~DEq(loaded[index].conversion_factor, Fin(0, 1, 0))

\* C29: for each of the twelve type names get_type_str gives back, from the
\* code get_unit_type returned for the name, that same name; and two
\* different type names have different codes.
C29_TypeNameRoundTrip ==
    LET Names == { length, volume, area, energy, power, mass, force, torque, speed,
                   pressure, temp, feconomy }
    IN  /\ \A name \in Names :
              strncmp_equal(kind.str, name, Len(name) + 1) => kind.name = name
        /\ \A one \in Names, other \in Names :
              one # other => get_unit_type(one) # get_unit_type(other)

----------------------------------------------------------------------------
(* Properties of the lookup *)

----------------------------------------------------------------------------
(* Properties of the parser *)

\* C21: get_prefix_value gives the letters Y, Z, E, P, T, G, M, k, h, D the
\* powers of ten 24, 21, 18, 15, 12, 9, 6, 3, 2, 1 and the letters d, c, m,
\* u, n, p, f, a, z, y the powers -1, -2, -3, -6, -9, -12, -15, -18, -21,
\* -24; it gives every other character, the terminator, ':' and '_'
\* included, -1; every multiplier of a letter is greater than 0.  (Read in
\* the prefix that check_escape_sequences leaves for '_' and the character.)
C21_PrefixTable ==
    LET Power == ("Y" :> 24) @@ ("Z" :> 21) @@ ("E" :> 18) @@ ("P" :> 15)
                 @@ ("T" :> 12) @@ ("G" :> 9) @@ ("M" :> 6) @@ ("k" :> 3)
                 @@ ("h" :> 2) @@ ("D" :> 1) @@ ("d" :> -1) @@ ("c" :> -2)
                 @@ ("m" :> -3) @@ ("u" :> -6) @@ ("n" :> -9) @@ ("p" :> -12)
                 @@ ("f" :> -15) @@ ("a" :> -18) @@ ("z" :> -21) @@ ("y" :> -24)
        c == CharAt(escape_arg, 1)
    IN  (escape_arg # NO_CALL /\ CharAt(escape_arg, 0) = "_") =>
            IF c \in DOMAIN Power
            THEN /\ escape_result.prefix = [k |-> "fin", n |-> 1, d |-> 1, e |-> Power[c]]
                 /\ escape_result.prefix.n > 0
                 /\ escape_result.ret # UNKNOWN_PREFIX
            ELSE /\ escape_result.prefix = Fin(-1, 1, 0)
                 /\ escape_result.ret = UNKNOWN_PREFIX

\* '_um' has been parsed: the multiplier 10^-6
C21_Witness ==
    /\ escape_arg = <<"_", "u", "m">>
    /\ escape_result.ret = 0
    /\ escape_result.prefix = [k |-> "fin", n |-> 1, d |-> 1, e |-> -6]

\* C9: check_escape_sequences succeeds as follows.  A string that does not
\* start with ':' or '_' is the literal name, multiplier 1; ':' is recall,
\* multiplier 1; '_P:' is recall with the multiplier of P; '_P' and a
\* non-empty rest that does not start with ':' is the literal name rest
\* with the multiplier of P.
C9_EscapeSequences ==
    escape_arg # NO_CALL =>
        /\ IsPlainName(escape_arg) =>
              escape_result = [ret |-> 0, str |-> escape_arg, prefix |-> Fin(1, 1, 0)]
        /\ escape_arg = <<":">> =>
              (escape_result.ret = RECALL_LAST /\ escape_result.prefix = Fin(1, 1, 0))
        /\ (IsRecallForm(escape_arg) /\ escape_arg # <<":">>) =>
              /\ escape_result.ret = RECALL_LAST
              /\ escape_result.prefix = Fin(1, 1, PrefixExponent(escape_arg[2]))
        /\ IsPrefixedName(escape_arg) =>
              escape_result = [ret |-> 0,
                               str |-> SubSeq(escape_arg, 3, Len(escape_arg)),
                               prefix |-> Fin(1, 1, PrefixExponent(escape_arg[2]))]

\* '_kx' has been parsed: the name x with the multiplier 1000
C9_Witness ==
    /\ escape_arg = <<"_", "k", "x">>
    /\ escape_result = [ret |-> 0, str |-> <<"x">>, prefix |-> Fin(1000, 1, 0)]

====
